---- MODULE Spec2Model ----
(***************************************************************************)
(* Model of src/minesweeper/minesweeper.py: the Sentence class (with its   *)
(* class-level safes/mines sets), the MinesweeperAI agent and the          *)
(* Minesweeper board that produces observations.                           *)
(*                                                                         *)
(* A cell is a pair <<i, j>>.  A sentence is a record [cells, count].      *)
(* Sentence.safes and Sentence.mines are class attributes (lines 93-94):   *)
(* one pair of sets shared by every Sentence of the process.  Operators    *)
(* on a sentence therefore work on a "view" [cells, count, safes, mines]   *)
(* whose safes/mines fields are those class-level sets.                    *)
(***************************************************************************)
EXTENDS Integers, Sequences, FiniteSets, TLC

VARIABLES height, width, board, Ssafes, Smines, ai, twin, sents, ret, ncalls

vars == <<height, width, board, Ssafes, Smines, ai, twin, sents, ret, ncalls>>

\* ------------------------------------------------------------------ bounds
MaxCalls == 2      \* state-changing calls per behaviour (general agent)
MaxCount == 2      \* largest count passed to add_knowledge (general agent)
MaxPasses == 20    \* recursion depth explored for conclude_new_information
MaxIsoCalls == 2   \* state-changing calls per behaviour (two agents)
MaxSents == 2      \* stand-alone Sentence objects
MaxSentCalls == 3  \* calls on stand-alone Sentence objects

\* board shapes <<height, width>> the agents are constructed with
Boards == {<<1, 2>>, <<2, 2>>, <<2, 3>>}

Agents == {"A", "B"}

BoardCells(h, w) == {<<i, j>> : i \in 0 .. h - 1, j \in 0 .. w - 1}

\* ---------------------------------------------------------------- Sentence

Sentence(cells, count) == [cells |-> cells, count |-> count]

\* a sentence together with the class-level sets it reads through self.safes
\* and self.mines
View(s, Ss, Sm) == [cells |-> s.cells, count |-> s.count, safes |-> Ss, mines |-> Sm]

Plain(v) == [cells |-> v.cells, count |-> v.count]

\* faulty variant: the cell is removed but the count is not decremented
Sentence_mark_mine_KeepsCount(v, cell) ==
    [v EXCEPT !.cells = @ \ {cell}, !.mines = @ \cup {cell}]

\* faulty variant: the count is decremented whether or not the cell is in cells
Sentence_mark_mine_AlwaysDecrements(v, cell) ==
    [v EXCEPT !.cells = @ \ {cell}, !.count = @ - 1, !.mines = @ \cup {cell}]

Sentence_mark_mine(v, cell) ==
    LET v1 == IF cell \in v.cells
              THEN [v EXCEPT !.cells = @ \ {cell}, !.count = @ - 1]
              ELSE v
    IN  [v1 EXCEPT !.mines = @ \cup {cell}]

Sentence_mark_safe(v, cell) ==
    LET v1 == [v EXCEPT !.safes = @ \cup {cell}]
    IN  IF cell \in v1.cells THEN [v1 EXCEPT !.cells = @ \ {cell}] ELSE v1

\* for cell in cs: v.mark_safe(cell)
RECURSIVE MarkSafeEach(_, _)
MarkSafeEach(v, cs) ==
    IF cs = {} THEN v
    ELSE LET c == CHOOSE x \in cs : TRUE
         IN  MarkSafeEach(Sentence_mark_safe(v, c), cs \ {c})

\* for cell in cs: v.mark_mine(cell)
RECURSIVE MarkMineEach(_, _)
MarkMineEach(v, cs) ==
    IF cs = {} THEN v
    ELSE LET c == CHOOSE x \in cs : TRUE
         IN  MarkMineEach(Sentence_mark_mine(v, c), cs \ {c})

\* returns [v |-> the sentence afterwards, ret |-> the boolean returned]
\* faulty variant: a sentence whose cells are all mines is resolved as if its
\* cells were all safe
mark_if_deterministic_AllSafe(v) ==
    IF v.count = 0 \/ Cardinality(v.cells) = v.count
    THEN [v |-> MarkSafeEach(v, v.cells), ret |-> TRUE]
    ELSE [v |-> v, ret |-> FALSE]

mark_if_deterministic(v) ==
    IF v.count = 0
    THEN [v |-> MarkSafeEach(v, v.cells), ret |-> TRUE]
    ELSE IF Cardinality(v.cells) = v.count
    THEN [v |-> MarkMineEach(v, v.cells), ret |-> TRUE]
    ELSE [v |-> v, ret |-> FALSE]

ReturnMines(v) == [v |-> v, ret |-> v.mines]

ReturnSafes(v) == [v |-> v, ret |-> v.safes]

known_mines(v) == ReturnMines(mark_if_deterministic(v).v)

known_safes(v) == ReturnSafes(mark_if_deterministic(v).v)

is_empty(s) == s.cells = {} /\ s.count = 0

\* Python's  other.is_empty() == set() : a bool compared with a set, never equal
BoolEqualsEmptySet(b) == FALSE

\* what reduce_sentence leaves: the two sentences, the class-level sets (taken
\* from the view v that was last written) and the value returned
Reduced(self, other, v, r) ==
    [self |-> self, other |-> other, safes |-> v.safes, mines |-> v.mines, ret |-> r]

\* self.cells is a subset of other.cells: other takes self's cells and count,
\* self takes the difference (tempSen), then self.mark_if_deterministic()
ReduceSelfSubset(self, v) == Reduced(Plain(v), self, v, TRUE)

\* other.cells is a subset of self.cells: self is cut down, then
\* self.mark_if_deterministic()
ReduceOtherSubset(other, v) == Reduced(Plain(v), other, v, TRUE)

\* the overlap rule marked cells safe on smallSen, whose cells set is the
\* very set object of the sentence it was copied from; m is that sentence
ReduceOverlap(self, other, selfLarge, m) ==
    IF selfLarge THEN Reduced(self, Plain(m), m, TRUE)
    ELSE Reduced(Plain(m), other, m, TRUE)

\* faulty variant: the subset branches take the difference of the cells but
\* keep the larger sentence's count
reduce_sentence_CountKept(self, other, same, Ss, Sm) ==
    IF is_empty(self) \/ BoolEqualsEmptySet(is_empty(other)) \/ same
    THEN Reduced(self, other, View(self, Ss, Sm), FALSE)
    ELSE IF self.cells \subseteq other.cells
    THEN ReduceSelfSubset(self,
             mark_if_deterministic(
                 View(Sentence(other.cells \ self.cells, other.count), Ss, Sm)).v)
    ELSE IF other.cells \subseteq self.cells
    THEN ReduceOtherSubset(other,
             mark_if_deterministic(
                 View(Sentence(self.cells \ other.cells, self.count), Ss, Sm)).v)
    ELSE Reduced(self, other, View(self, Ss, Sm), FALSE)

\* self.reduce_sentence(other); same is "self is other".
\* returns [self, other, safes, mines, ret]
reduce_sentence(self, other, same, Ss, Sm) ==
    IF is_empty(self) \/ BoolEqualsEmptySet(is_empty(other)) \/ same
    THEN Reduced(self, other, View(self, Ss, Sm), FALSE)
    ELSE IF self.cells \subseteq other.cells
    THEN ReduceSelfSubset(self,
             mark_if_deterministic(
                 View(Sentence(other.cells \ self.cells, other.count - self.count),
                      Ss, Sm)).v)
    ELSE IF other.cells \subseteq self.cells
    THEN ReduceOtherSubset(other,
             mark_if_deterministic(
                 View(Sentence(self.cells \ other.cells, self.count - other.count),
                      Ss, Sm)).v)
    ELSE LET selfLarge == self.count > other.count
             largeSen == IF selfLarge THEN self ELSE other
             smallSen == IF selfLarge THEN other ELSE self
             intersection == largeSen.cells \cap smallSen.cells
             cellsInLargeNotInBoth == largeSen.cells \ intersection
         IN  IF largeSen.count - Cardinality(cellsInLargeNotInBoth) = smallSen.count
             THEN ReduceOverlap(self, other, selfLarge,
                      MarkSafeEach(View(smallSen, Ss, Sm), smallSen.cells \ intersection))
             ELSE Reduced(self, other, View(self, Ss, Sm), FALSE)

\* ------------------------------------------------------------- Minesweeper

\* Minesweeper.nearby_mines on a board of h x w with mine set M
nearby_mines(M, h, w, cell) ==
    Cardinality({c \in M :
        /\ c[1] \in cell[1] - 1 .. cell[1] + 1
        /\ c[2] \in cell[2] - 1 .. cell[2] + 1
        /\ c # cell
        /\ 0 <= c[1] /\ c[1] < h /\ 0 <= c[2] /\ c[2] < w})

\* ----------------------------------------------------------- MinesweeperAI
\* An agent is [height, width, moves_made, mines, safes, knowledge]; a world
\* is an agent together with the class-level sets Ssafes, Smines its
\* sentences share.

MinesweeperAI(h, w) ==
    [height |-> h, width |-> w, moves_made |-> {}, mines |-> {}, safes |-> {},
     knowledge |-> <<>>]

World(a, Ss, Sm) ==
    [height |-> a.height, width |-> a.width, moves_made |-> a.moves_made,
     mines |-> a.mines, safes |-> a.safes, knowledge |-> a.knowledge,
     Ssafes |-> Ss, Smines |-> Sm]

AgentOf(w) ==
    [height |-> w.height, width |-> w.width, moves_made |-> w.moves_made,
     mines |-> w.mines, safes |-> w.safes, knowledge |-> w.knowledge]

\* knowledge[i] seen with the class-level sets of world w
SentView(w, i) == View(w.knowledge[i], w.Ssafes, w.Smines)

\* write a sentence view back as knowledge[i] and as the class-level sets
PutSent(w, i, v) ==
    [w EXCEPT !.knowledge[i] = Plain(v), !.Ssafes = v.safes, !.Smines = v.mines]

\* for sentence in self.knowledge[i..]: sentence.mark_mine(cell)
RECURSIVE KnowledgeMarkMine(_, _, _)
KnowledgeMarkMine(w, i, cell) ==
    IF i > Len(w.knowledge) THEN w
    ELSE KnowledgeMarkMine(PutSent(w, i, Sentence_mark_mine(SentView(w, i), cell)), i + 1, cell)

\* for sentence in self.knowledge[i..]: sentence.mark_safe(cell)
RECURSIVE KnowledgeMarkSafe(_, _, _)
KnowledgeMarkSafe(w, i, cell) ==
    IF i > Len(w.knowledge) THEN w
    ELSE KnowledgeMarkSafe(PutSent(w, i, Sentence_mark_safe(SentView(w, i), cell)), i + 1, cell)

\* faulty variant: the mine is recorded but not marked on the sentences
AI_mark_mine_NoPropagation(w, cell) == [w EXCEPT !.mines = @ \cup {cell}]

AI_mark_mine(w, cell) ==
    KnowledgeMarkMine([w EXCEPT !.mines = @ \cup {cell}], 1, cell)

\* faulty variant: the set of safes is overwritten, not extended
AI_mark_safe_Overwrites(w, cell) ==
    KnowledgeMarkSafe([w EXCEPT !.safes = {cell}], 1, cell)

AI_mark_safe(w, cell) ==
    KnowledgeMarkSafe([w EXCEPT !.safes = @ \cup {cell}], 1, cell)

get_nearby_cells(w, cell) ==
    {c \in (cell[1] - 1 .. cell[1] + 1) \X (cell[2] - 1 .. cell[2] + 1) :
        /\ c # cell
        /\ ~(c[1] = w.height \/ c[2] = w.width \/ c[1] < 0 \/ c[2] < 0)}

\* update_marks_to(newKnoledge): the sentence (a view) after every known safe
\* and then every known mine of the agent was marked on it
update_marks_to(w, s) ==
    MarkMineEach(MarkSafeEach(View(s, w.Ssafes, w.Smines), w.safes), w.mines)

\* for cellToMark in cs: self.mark_safe(cellToMark)
RECURSIVE AIMarkSafeEach(_, _)
AIMarkSafeEach(w, cs) ==
    IF cs = {} THEN w
    ELSE LET c == CHOOSE x \in cs : TRUE
         IN  AIMarkSafeEach(AI_mark_safe(w, c), cs \ {c})

\* for cellToMark in cs: self.mark_mine(cellToMark)
RECURSIVE AIMarkMineEach(_, _)
AIMarkMineEach(w, cs) ==
    IF cs = {} THEN w
    ELSE LET c == CHOOSE x \in cs : TRUE
         IN  AIMarkMineEach(AI_mark_mine(w, c), cs \ {c})

\* for sen in self.knowledge[i..]: sen.mark_if_deterministic()
RECURSIVE KnowledgeMarkIfDeterministic(_, _)
KnowledgeMarkIfDeterministic(w, i) ==
    IF i > Len(w.knowledge) THEN w
    ELSE KnowledgeMarkIfDeterministic(
             PutSent(w, i, mark_if_deterministic(SentView(w, i)).v), i + 1)

\* update_knowledge_marks_from(sentence): sentence.safes and sentence.mines
\* are the class-level sets, whichever sentence is passed; set(...) copies
\* each before its loop starts
MarkMinesFromSentence(w) == AIMarkMineEach(w, w.Smines)

update_knowledge_marks_from(w) ==
    KnowledgeMarkIfDeterministic(MarkMinesFromSentence(AIMarkSafeEach(w, w.Ssafes)), 1)

\* self.update_marks_to(self.knowledge[i])
UpdateMarksToKnowledge(w, i) == PutSent(w, i, update_marks_to(w, w.knowledge[i]))

\* write the outcome r of knowledge[i].reduce_sentence(knowledge[j]) back
PutReduced(w, i, j, r) ==
    [w EXCEPT !.knowledge[i] = r.self, !.knowledge[j] = r.other,
              !.Ssafes = r.safes, !.Smines = r.mines]

\* self.knowledge[i].reduce_sentence(self.knowledge[j]), i # j
ReduceKnowledge(w, i, j) ==
    PutReduced(w, i, j,
        reduce_sentence(w.knowledge[i], w.knowledge[j], FALSE, w.Ssafes, w.Smines))

\* the body of the two nested loops of conclude_new_information (0-based i, j
\* of the code are i - 1, j - 1 here); b is the world after the first two
\* calls of the body
ConcludePairRest(b, i, j) ==
    IF i = j THEN b
    ELSE update_knowledge_marks_from(ReduceKnowledge(b, i, j))

ConcludePair(w, i, j) ==
    ConcludePairRest(UpdateMarksToKnowledge(update_knowledge_marks_from(w), i), i, j)

RECURSIVE ConcludeLoop(_, _, _)
ConcludeLoop(w, i, j) ==
    IF i > Len(w.knowledge) THEN w
    ELSE IF j > Len(w.knowledge) THEN ConcludeLoop(w, i + 1, i + 1)
    ELSE ConcludeLoop(ConcludePair(w, i, j), i, j + 1)

\* faulty variant: empty sentences are left in knowledge
RemoveEmpty_KeepsAll(kn) == kn

\* for sen in list(self.knowledge): if sen.is_empty(): self.knowledge.remove(sen)
\* list.remove drops the first element equal to sen, and all empty sentences
\* are equal: every empty sentence goes, the others keep their order
RemoveEmpty(kn) == SelectSeq(kn, LAMBDA s : ~is_empty(s))

RemoveEmptyKnowledge(w) == [w EXCEPT !.knowledge = RemoveEmpty(@)]

\* faulty variant: the negation of line 285 is lost
ChangedMarks_Inverted(beforeSafes, beforeMines, w) ==
    beforeSafes = w.safes /\ beforeMines = w.mines

\* the test that decides the recursive call (line 285)
ChangedMarks(beforeSafes, beforeMines, w) ==
    ~(beforeSafes = w.safes /\ beforeMines = w.mines)

Concluded(w, passes, done) == [w |-> w, passes |-> passes, done |-> done]

OneMorePass(r) == Concluded(r.w, r.passes + 1, r.done)

\* returns [w, passes, done]: the world afterwards, the number of
\* invocations of conclude_new_information, and whether the recursion ended
\* within fuel further invocations
RECURSIVE conclude_new_information(_, _)
ConcludeAgain(beforeSafes, beforeMines, w2, fuel) ==
    IF ChangedMarks(beforeSafes, beforeMines, w2)
    THEN IF fuel = 0 THEN Concluded(w2, 1, FALSE)
         ELSE OneMorePass(conclude_new_information(w2, fuel - 1))
    ELSE Concluded(w2, 1, TRUE)

conclude_new_information(w, fuel) ==
    ConcludeAgain(w.safes, w.mines, RemoveEmptyKnowledge(ConcludeLoop(w, 1, 1)), fuel)

\* the sentence add_knowledge builds, before the closure runs: a view
NewKnowledge(w, cell, count) ==
    update_marks_to(w, Sentence(get_nearby_cells(w, cell), count))

\* lines 264-268: d is what newKnowledge.mark_if_deterministic() gave
SetClassSets(w, v) == [w EXCEPT !.Ssafes = v.safes, !.Smines = v.mines]

AppendIfNotEmpty(w, s) ==
    IF ~is_empty(s) THEN [w EXCEPT !.knowledge = Append(@, s)] ELSE w

AddNewKnowledge(w, d) ==
    AppendIfNotEmpty(
        IF d.ret THEN update_knowledge_marks_from(SetClassSets(w, d.v))
        ELSE SetClassSets(w, d.v),
        Plain(d.v))

\* lines 260-268, w the world after self.mark_safe(cell)
BuildKnowledge(w, cell, count) ==
    AddNewKnowledge(w, mark_if_deterministic(NewKnowledge(w, cell, count)))

\* returns [w, passes, done]
add_knowledge(w, cell, count) ==
    conclude_new_information(
        BuildKnowledge(AI_mark_safe([w EXCEPT !.moves_made = @ \cup {cell}], cell),
                       cell, count),
        MaxPasses)

\* faulty variant: moves already made are not skipped
make_safe_move_IgnoresMoves(w, pick) ==
    IF pick \in w.safes THEN [w |-> w, ret |-> {pick}] ELSE [w |-> w, ret |-> {}]

\* returns [w, ret]: ret is {} for None, {cell} for a cell.  The code returns
\* the first cell of the iteration order of the set self.safes that is not in
\* moves_made: any such cell, as far as the source says
make_safe_move(w, pick) ==
    IF pick \in w.safes /\ pick \notin w.moves_made
    THEN [w |-> w, ret |-> {pick}]
    ELSE [w |-> w, ret |-> {}]

CanPickSafe(w, pick) ==
    \/ pick \in w.safes \ w.moves_made
    \/ w.safes \ w.moves_made = {}

\* the cells the loops of make_random_move visit, in order: i over
\* range(self.width), j over range(self.height)
RandomMoveCandidates(w) ==
    {c \in (0 .. w.width - 1) \X (0 .. w.height - 1) :
        c \notin w.moves_made /\ c \notin w.mines}

Before(c, d) == c[1] < d[1] \/ (c[1] = d[1] /\ c[2] < d[2])

make_random_move(w) ==
    LET cand == RandomMoveCandidates(w)
    IN  IF cand = {} THEN [w |-> w, ret |-> {}]
        ELSE [w |-> w,
              ret |-> {CHOOSE c \in cand : \A d \in cand : d = c \/ Before(c, d)}]

\* ------------------------------------------------------------------- state
\* height, width : the board shape every agent is constructed with
\* board         : the mine set of the Minesweeper game (SpecLegit)
\* Ssafes, Smines: Sentence.safes, Sentence.mines (class attributes)
\* ai            : the MinesweeperAI instances
\* twin          : agent B run alone in a process of its own, on B's calls
\* sents         : stand-alone Sentence objects, each with the cells marked
\*                 or derived on that object itself (ownSafes, ownMines)
\* ret           : the last call and what it returned
\* ncalls        : state-changing calls made so far

\* who: the agent ("A", "B") or "S" for a stand-alone sentence; idx: which
\* stand-alone sentence; cell: the cell passed, as a set; val: the value
\* returned, {} for None; passes, done: what the closure reported; grown: how
\* many cells the call added to the agent's safes and mines
Ret(op, who, idx, cell, val, passes, done, grown) ==
    [op |-> op, who |-> who, idx |-> idx, cell |-> cell, val |-> val,
     passes |-> passes, done |-> done, grown |-> grown]

InitCommon ==
    /\ Ssafes = {}
    /\ Smines = {}
    /\ ai = [a \in Agents |-> MinesweeperAI(height, width)]
    /\ twin = World(MinesweeperAI(height, width), {}, {})
    /\ sents = <<>>
    /\ ret = Ret("init", "", 0, {}, {}, 0, TRUE, 0)
    /\ ncalls = 0

Init ==
    /\ \E b \in Boards : height = b[1] /\ width = b[2]
    /\ board = {}
    /\ InitCommon

\* the world of agent a in the current state
WorldOf(a) == World(ai[a], Ssafes, Smines)

Marks(w) == Cardinality(w.safes) + Cardinality(w.mines)

\* the cells the driver may pass: the board's, and one outside the board
CallCells == BoardCells(height, width) \cup {<<height, 0>>}

\* agent a and the class-level sets become those of world w
SetWorld(a, w) ==
    /\ ai' = [ai EXCEPT ![a] = AgentOf(w)]
    /\ Ssafes' = w.Ssafes
    /\ Smines' = w.Smines

\* r is what a.add_knowledge(cell, count) gave in world w
AddKnowledgeDone(a, cell, w, r) ==
    /\ SetWorld(a, r.w)
    /\ ret' = Ret("add_knowledge", a, 0, {cell}, {}, r.passes, r.done,
                  Marks(r.w) - Marks(w))

\* a.add_knowledge(cell, count)
DoAddKnowledge(a, cell, count) ==
    /\ AddKnowledgeDone(a, cell, WorldOf(a), add_knowledge(WorldOf(a), cell, count))
    /\ UNCHANGED <<height, width, board, sents>>

\* a.mark_safe(cell)
DoMarkSafe(a, cell) ==
    /\ SetWorld(a, AI_mark_safe(WorldOf(a), cell))
    /\ ret' = Ret("mark_safe", a, 0, {cell}, {}, 0, TRUE, 0)
    /\ UNCHANGED <<height, width, board, sents>>

\* a.mark_mine(cell)
DoMarkMine(a, cell) ==
    /\ SetWorld(a, AI_mark_mine(WorldOf(a), cell))
    /\ ret' = Ret("mark_mine", a, 0, {cell}, {}, 0, TRUE, 0)
    /\ UNCHANGED <<height, width, board, sents>>

\* r is what a query (make_safe_move, make_random_move) of agent a gave
QueryDone(op, a, r) ==
    /\ SetWorld(a, r.w)
    /\ ret' = Ret(op, a, 0, {}, r.ret, 0, TRUE, 0)

AddKnowledge ==
    /\ ncalls < MaxCalls
    /\ \E cell \in CallCells, count \in 0 .. MaxCount : DoAddKnowledge("A", cell, count)
    /\ ncalls' = ncalls + 1
    /\ UNCHANGED twin

MarkSafe ==
    /\ ncalls < MaxCalls
    /\ \E cell \in BoardCells(height, width) : DoMarkSafe("A", cell)
    /\ ncalls' = ncalls + 1
    /\ UNCHANGED twin

MarkMine ==
    /\ ncalls < MaxCalls
    /\ \E cell \in BoardCells(height, width) : DoMarkMine("A", cell)
    /\ ncalls' = ncalls + 1
    /\ UNCHANGED twin

\* A.make_safe_move()
MakeSafeMove ==
    /\ \E pick \in ai["A"].safes \cup {<<0, 0>>} :
          /\ CanPickSafe(WorldOf("A"), pick)
          /\ QueryDone("make_safe_move", "A", make_safe_move(WorldOf("A"), pick))
    /\ UNCHANGED <<height, width, board, sents, twin, ncalls>>

\* A.make_random_move()
MakeRandomMove ==
    /\ QueryDone("make_random_move", "A", make_random_move(WorldOf("A")))
    /\ UNCHANGED <<height, width, board, sents, twin, ncalls>>

\* r is what a.conclude_new_information() gave in world w
ConcludeDone(a, w, r) ==
    /\ SetWorld(a, r.w)
    /\ ret' = Ret("conclude_new_information", a, 0, {}, {}, r.passes, r.done,
                  Marks(r.w) - Marks(w))

\* a.conclude_new_information()
DoConclude(a) ==
    /\ ConcludeDone(a, WorldOf(a), conclude_new_information(WorldOf(a), MaxPasses))
    /\ UNCHANGED <<height, width, board, sents>>

\* A.conclude_new_information(), counted among the calls: on contradictory
\* sentences every further run can move the counts further from 0
ConcludeNewInformation ==
    /\ ncalls < MaxCalls
    /\ DoConclude("A")
    /\ ncalls' = ncalls + 1
    /\ UNCHANGED twin

\* a call that only marks left world w2 of world w
MarksDone(op, a, w, w2) ==
    /\ SetWorld(a, w2)
    /\ ret' = Ret(op, a, 0, {}, {}, 0, TRUE, Marks(w2) - Marks(w))

\* A.update_knowledge_marks_from(sentence): whichever Sentence is passed, the
\* sets read through it are the class-level ones
UpdateKnowledgeMarksFrom ==
    /\ ncalls < MaxCalls
    /\ MarksDone("update_knowledge_marks_from", "A", WorldOf("A"),
                 update_knowledge_marks_from(WorldOf("A")))
    /\ ncalls' = ncalls + 1
    /\ UNCHANGED <<height, width, board, sents, twin>>

\* A.update_marks_to(A.knowledge[i]), or A.update_marks_to(Sentence({cell},
\* count)) on a sentence made for the call, of which only the marks it leaves
\* in the class-level sets remain
UpdateMarksTo ==
    /\ ncalls < MaxCalls
    /\ \/ \E i \in 1 .. Len(ai["A"].knowledge) :
             MarksDone("update_marks_to", "A", WorldOf("A"),
                       UpdateMarksToKnowledge(WorldOf("A"), i))
       \/ \E cell \in BoardCells(height, width), count \in 0 .. MaxCount :
             MarksDone("update_marks_to", "A", WorldOf("A"),
                       SetClassSets(WorldOf("A"),
                                    update_marks_to(WorldOf("A"), Sentence({cell}, count))))
    /\ ncalls' = ncalls + 1
    /\ UNCHANGED <<height, width, board, sents, twin>>

Next ==
    \/ AddKnowledge
    \/ MarkSafe
    \/ MarkMine
    \/ ConcludeNewInformation
    \/ UpdateKnowledgeMarksFrom
    \/ UpdateMarksTo
    \/ MakeSafeMove
    \/ MakeRandomMove

\* one agent driven by arbitrary calls
Spec == Init /\ [][Next]_vars

\* ------------------------------------------------- legitimate observations
\* a fresh agent A fed nearby_mines of cells of one fixed board that are not
\* mines, with no other Sentence activity in the process

InitLegit ==
    /\ \E b \in Boards : height = b[1] /\ width = b[2]
    /\ board \in SUBSET BoardCells(height, width)
    /\ InitCommon

Observe ==
    /\ \E cell \in BoardCells(height, width) \ board :
          DoAddKnowledge("A", cell, nearby_mines(board, height, width, cell))
    /\ UNCHANGED <<twin, ncalls>>

NextLegit ==
    \/ Observe
    \/ MakeSafeMove
    \/ MakeRandomMove

SpecLegit == InitLegit /\ [][NextLegit]_vars

\* ------------------------------------------------- the closure, run once more
\* a fresh agent on a 2 x 4 board, fed the true count of cells that are no
\* mines and that it was not given before, as the game reveals them; between
\* observations the closure may be run again

InitWide ==
    /\ height = 2
    /\ width = 4
    /\ board \in SUBSET BoardCells(height, width)
    /\ InitCommon

ObserveNew ==
    /\ \E cell \in (BoardCells(height, width) \ board) \ ai["A"].moves_made :
          DoAddKnowledge("A", cell, nearby_mines(board, height, width, cell))
    /\ UNCHANGED <<twin, ncalls>>

\* A.conclude_new_information() between true observations
Conclude ==
    /\ DoConclude("A")
    /\ UNCHANGED <<twin, ncalls>>

NextClosure ==
    \/ ObserveNew
    \/ Conclude

SpecClosure == InitWide /\ [][NextClosure]_vars

\* ---------------------------------------------------------------- two agents
\* agents A and B in one process; twin is B alone in a process of its own,
\* given exactly the calls B is given

InitIso ==
    /\ \E b \in Boards : height = b[1] /\ width = b[2]
    /\ board = {}
    /\ InitCommon

IsoAddKnowledgeA ==
    /\ ncalls < MaxIsoCalls
    /\ \E cell \in BoardCells(height, width), count \in 0 .. MaxCount :
          DoAddKnowledge("A", cell, count)
    /\ ncalls' = ncalls + 1
    /\ UNCHANGED twin

IsoMarkSafeA ==
    /\ ncalls < MaxIsoCalls
    /\ \E cell \in BoardCells(height, width) : DoMarkSafe("A", cell)
    /\ ncalls' = ncalls + 1
    /\ UNCHANGED twin

IsoMarkMineA ==
    /\ ncalls < MaxIsoCalls
    /\ \E cell \in BoardCells(height, width) : DoMarkMine("A", cell)
    /\ ncalls' = ncalls + 1
    /\ UNCHANGED twin

IsoAddKnowledgeB ==
    /\ ncalls < MaxIsoCalls
    /\ \E cell \in BoardCells(height, width), count \in 0 .. MaxCount :
          /\ DoAddKnowledge("B", cell, count)
          /\ twin' = add_knowledge(twin, cell, count).w
    /\ ncalls' = ncalls + 1

\* Sentence(cells, count).known_safes() on a sentence of its own (test.py,
\* lines 20-21)
IsoStandAlone ==
    /\ ncalls < MaxIsoCalls
    /\ \E cells \in SUBSET BoardCells(height, width), count \in 0 .. MaxCount :
          LET k == known_safes(View(Sentence(cells, count), Ssafes, Smines))
          IN  /\ Ssafes' = k.v.safes
              /\ Smines' = k.v.mines
              /\ ret' = Ret("known_safes", "S", 0, {}, k.ret, 0, TRUE, 0)
    /\ ncalls' = ncalls + 1
    /\ UNCHANGED <<height, width, board, ai, twin, sents>>

NextIso ==
    \/ IsoAddKnowledgeA
    \/ IsoMarkSafeA
    \/ IsoMarkMineA
    \/ IsoAddKnowledgeB
    \/ IsoStandAlone

SpecIso == InitIso /\ [][NextIso]_vars

\* ------------------------------------------------------ stand-alone sentences
\* sents[i] is [cells, count, ownSafes, ownMines]: a Sentence object, and the
\* cells that were marked or derived on that object itself

SentCells == {<<0, 0>>, <<0, 1>>, <<1, 0>>}

InitSent ==
    /\ height = 2
    /\ width = 2
    /\ board = {}
    /\ InitCommon

\* sents[i] seen with the class-level sets, as the code sees it
ClassView(i) == View(sents[i], Ssafes, Smines)

\* sents[i] seen with sets of its own: what safes and mines would hold were
\* they attributes of the instance
OwnView(i) == View(sents[i], sents[i].ownSafes, sents[i].ownMines)

\* an operation on sents[i] left view v of it, and view o on sets of its own
SentDone(op, i, cell, v, o, val) ==
    /\ sents' = [sents EXCEPT ![i] = [cells |-> v.cells, count |-> v.count,
                                      ownSafes |-> o.safes, ownMines |-> o.mines]]
    /\ Ssafes' = v.safes
    /\ Smines' = v.mines
    /\ ret' = Ret(op, "S", i, cell, val, 0, TRUE, 0)
    /\ ncalls' = ncalls + 1
    /\ UNCHANGED <<height, width, board, ai, twin>>

\* Sentence(cells, count)
SentNew ==
    /\ Len(sents) < MaxSents
    /\ \E cells \in SUBSET SentCells, count \in 0 .. MaxCount :
          /\ sents' = Append(sents, [cells |-> Sentence(cells, count).cells,
                                     count |-> Sentence(cells, count).count,
                                     ownSafes |-> {}, ownMines |-> {}])
          /\ ret' = Ret("Sentence", "S", Len(sents) + 1, {}, {}, 0, TRUE, 0)
    /\ UNCHANGED <<height, width, board, Ssafes, Smines, ai, twin, ncalls>>

\* sents[i].mark_safe(cell)
SentMarkSafe ==
    /\ ncalls < MaxSentCalls
    /\ \E i \in 1 .. Len(sents), cell \in SentCells :
          SentDone("mark_safe", i, {cell}, Sentence_mark_safe(ClassView(i), cell),
                   Sentence_mark_safe(OwnView(i), cell), {})

\* sents[i].mark_mine(cell)
SentMarkMine ==
    /\ ncalls < MaxSentCalls
    /\ \E i \in 1 .. Len(sents), cell \in SentCells :
          SentDone("mark_mine", i, {cell}, Sentence_mark_mine(ClassView(i), cell),
                   Sentence_mark_mine(OwnView(i), cell), {})

\* sents[i].known_safes()
SentKnownSafes ==
    /\ ncalls < MaxSentCalls
    /\ \E i \in 1 .. Len(sents) :
          SentDone("known_safes", i, {}, known_safes(ClassView(i)).v,
                   known_safes(OwnView(i)).v, known_safes(ClassView(i)).ret)

\* sents[i].known_mines()
SentKnownMines ==
    /\ ncalls < MaxSentCalls
    /\ \E i \in 1 .. Len(sents) :
          SentDone("known_mines", i, {}, known_mines(ClassView(i)).v,
                   known_mines(OwnView(i)).v, known_mines(ClassView(i)).ret)

NextSent ==
    \/ SentNew
    \/ SentMarkSafe
    \/ SentMarkMine
    \/ SentKnownSafes
    \/ SentKnownMines

SpecSent == InitSent /\ [][NextSent]_vars

\* ------------------------------------------- one operation on drawn sentences
\* two Sentence objects with any cells and count, the class-level sets holding
\* anything already, and one Sentence method called on them

MaxOpCount == 3

OpCounts == -1 .. MaxOpCount

OpClassSets == {{}, {<<0, 0>>}}

OpSentence(cells, count) ==
    [cells |-> Sentence(cells, count).cells, count |-> Sentence(cells, count).count,
     ownSafes |-> {}, ownMines |-> {}]

InitOps ==
    /\ height = 2
    /\ width = 2
    /\ board = {}
    /\ Ssafes \in OpClassSets
    /\ Smines \in OpClassSets
    /\ ai = [a \in Agents |-> MinesweeperAI(height, width)]
    /\ twin = World(MinesweeperAI(height, width), {}, {})
    /\ \E c1 \in SUBSET SentCells, c2 \in SUBSET SentCells :
          \E n1 \in OpCounts, n2 \in OpCounts :
             sents = <<OpSentence(c1, n1), OpSentence(c2, n2)>>
    /\ ret = Ret("init", "", 0, {}, {}, 0, TRUE, 0)
    /\ ncalls = 0

\* sents[i].mark_safe(cell)
OpMarkSafe ==
    /\ ncalls = 0
    /\ \E i \in 1 .. Len(sents), cell \in SentCells :
          SentDone("mark_safe", i, {cell}, Sentence_mark_safe(ClassView(i), cell),
                   Sentence_mark_safe(OwnView(i), cell), {})

\* sents[i].mark_mine(cell)
OpMarkMine ==
    /\ ncalls = 0
    /\ \E i \in 1 .. Len(sents), cell \in SentCells :
          SentDone("mark_mine", i, {cell}, Sentence_mark_mine(ClassView(i), cell),
                   Sentence_mark_mine(OwnView(i), cell), {})

\* sents[i].mark_if_deterministic(); the boolean returned is kept as {b}
OpMarkIfDeterministic ==
    /\ ncalls = 0
    /\ \E i \in 1 .. Len(sents) :
          SentDone("mark_if_deterministic", i, {},
                   mark_if_deterministic(ClassView(i)).v,
                   mark_if_deterministic(OwnView(i)).v,
                   {mark_if_deterministic(ClassView(i)).ret})

\* sents[i].known_safes()
OpKnownSafes ==
    /\ ncalls = 0
    /\ \E i \in 1 .. Len(sents) :
          SentDone("known_safes", i, {}, known_safes(ClassView(i)).v,
                   known_safes(OwnView(i)).v, known_safes(ClassView(i)).ret)

\* sents[i].known_mines()
OpKnownMines ==
    /\ ncalls = 0
    /\ \E i \in 1 .. Len(sents) :
          SentDone("known_mines", i, {}, known_mines(ClassView(i)).v,
                   known_mines(OwnView(i)).v, known_mines(ClassView(i)).ret)

\* the own sets of sents[i] after sents[i].reduce_sentence(sents[j]): the two
\* subset branches end with self.mark_if_deterministic(), which marks on self;
\* the overlap rule marks on smallSen, a Sentence made inside the call
OwnReduced(i, j) ==
    IF sents[i].cells \subseteq sents[j].cells \/ sents[j].cells \subseteq sents[i].cells
    THEN reduce_sentence(Plain(OwnView(i)), Plain(OwnView(j)), i = j,
                         sents[i].ownSafes, sents[i].ownMines)
    ELSE Reduced(Plain(OwnView(i)), Plain(OwnView(j)), OwnView(i), FALSE)

\* sents[i].reduce_sentence(sents[j]) returned r, and o on sets of sents[i]'s
\* own; idx is <<i, j>>
ReduceDone(i, j, r, o) ==
    /\ sents' = [sents EXCEPT ![j].cells = r.other.cells, ![j].count = r.other.count,
                              ![i].cells = r.self.cells, ![i].count = r.self.count,
                              ![i].ownSafes = o.safes, ![i].ownMines = o.mines]
    /\ Ssafes' = r.safes
    /\ Smines' = r.mines
    /\ ret' = Ret("reduce_sentence", "S", <<i, j>>, {}, {r.ret}, 0, TRUE, 0)
    /\ ncalls' = ncalls + 1
    /\ UNCHANGED <<height, width, board, ai, twin>>

\* sents[i].reduce_sentence(sents[j]), j = i being the object itself
OpReduce ==
    /\ ncalls = 0
    /\ \E i \in 1 .. Len(sents), j \in 1 .. Len(sents) :
          ReduceDone(i, j,
                     reduce_sentence(Plain(ClassView(i)), Plain(ClassView(j)),
                                     i = j, Ssafes, Smines),
                     OwnReduced(i, j))

NextOps ==
    \/ OpMarkSafe
    \/ OpMarkMine
    \/ OpMarkIfDeterministic
    \/ OpKnownSafes
    \/ OpKnownMines
    \/ OpReduce

SpecOps == InitOps /\ [][NextOps]_vars

\* -------------------------------------------- reduction of two true sentences
\* board is a mine assignment over the four cells of a 2 x 2 board; the two
\* sentences drawn are true of it: count is the number of mines among cells

TrueSentence(cells) == OpSentence(cells, Cardinality(cells \cap board))

InitSound ==
    /\ height = 2
    /\ width = 2
    /\ board \in SUBSET BoardCells(height, width)
    /\ Ssafes \in OpClassSets
    /\ Smines \in OpClassSets
    /\ ai = [a \in Agents |-> MinesweeperAI(height, width)]
    /\ twin = World(MinesweeperAI(height, width), {}, {})
    /\ \E c1 \in SUBSET BoardCells(height, width), c2 \in SUBSET BoardCells(height, width) :
          sents = <<TrueSentence(c1), TrueSentence(c2)>>
    /\ ret = Ret("init", "", 0, {}, {}, 0, TRUE, 0)
    /\ ncalls = 0

SpecSound == InitSound /\ [][OpReduce]_vars

\* ------------------------------------------------- an agent with marks on it
\* a fresh agent on which the driver called mark_safe for the cells of S and
\* mark_mine for the cells of M: with no sentence in knowledge these calls
\* only add to safes and mines

Marked(a, S, M) == [a EXCEPT !.safes = S, !.mines = M]

InitMarked ==
    /\ \E b \in {<<1, 2>>, <<2, 2>>} : height = b[1] /\ width = b[2]
    /\ board = {}
    /\ Ssafes = {}
    /\ Smines = {}
    /\ \E S \in SUBSET BoardCells(height, width), M \in SUBSET BoardCells(height, width) :
          ai = [a \in Agents |-> Marked(MinesweeperAI(height, width), S, M)]
    /\ twin = World(MinesweeperAI(height, width), {}, {})
    /\ sents = <<>>
    /\ ret = Ret("init", "", 0, {}, {}, 0, TRUE, 0)
    /\ ncalls = 0

SpecMarked == InitMarked /\ [][AddKnowledge]_vars

\* ===================================================================== claims

A == ai["A"]

\* C1 (SpecLegit): fed only the true nearby-mine counts of cells of one board
\* that are not mines, a fresh agent never holds a mine of the board in safes
\* and never holds a cell that is no mine in mines.
C1_Soundness ==
    /\ A.safes \cap board = {}
    /\ A.mines \subseteq board

C1_Witness ==
    /\ ret.op = "add_knowledge"
    /\ A.mines # {}
    /\ A.safes \ A.moves_made # {}
    /\ Cardinality(A.moves_made) >= 2
    /\ Len(A.knowledge) >= 1

\* a cell both safe and a mine, or a sentence whose count is outside
\* 0 .. |cells|
Contradictory(a) ==
    \/ a.safes \cap a.mines # {}
    \/ \E i \in 1 .. Len(a.knowledge) :
          \/ a.knowledge[i].count < 0
          \/ a.knowledge[i].count > Cardinality(a.knowledge[i].cells)

\* C2 (Spec): an add_knowledge call that returns normally does not leave a
\* contradictory state behind (a call that would do so fails instead).  The
\* source has no raise statement: every call of the model returns normally.
C2_ContradictionSurfaced ==
    ret.op = "add_knowledge" => ~Contradictory(A)

\* C3 (SpecIso): what agent B holds depends on the calls made on B alone: it
\* equals what B holds when run in a process of its own (twin), whatever was
\* called on agent A or on stand-alone sentences in between.
C3_AgentIsolation ==
    ai["B"] = AgentOf(twin)

\* C4 (SpecSent): known_safes() and known_mines() of a Sentence return only
\* cells that were marked or derived on that same Sentence.
C4_SentenceIsolation ==
    /\ ret.who = "S" /\ ret.op = "known_safes"
          => ret.val \subseteq sents[ret.idx].ownSafes
    /\ ret.who = "S" /\ ret.op = "known_mines"
          => ret.val \subseteq sents[ret.idx].ownMines

\* C5 (Spec): no call removes a cell from moves_made, safes or mines.
C5_Monotone ==
    [][\A a \in Agents :
          /\ ai[a].moves_made \subseteq ai'[a].moves_made
          /\ ai[a].safes \subseteq ai'[a].safes
          /\ ai[a].mines \subseteq ai'[a].mines]_vars

C5_Witness ==
    /\ ncalls = MaxCalls
    /\ ret.op = "add_knowledge"
    /\ A.mines # {}
    /\ A.safes \ A.moves_made # {}

\* C6 (Spec): after add_knowledge, mark_safe or mark_mine of the agent
\* returns, no sentence of knowledge holds a cell of safes or of mines.
C6_Propagated ==
    \A i \in 1 .. Len(A.knowledge) :
        /\ A.knowledge[i].cells \cap A.safes = {}
        /\ A.knowledge[i].cells \cap A.mines = {}

C6_Witness ==
    /\ ret.op = "mark_mine"
    /\ Len(A.knowledge) >= 1
    /\ A.knowledge[1].cells # {}
    /\ A.safes # {}
    /\ \E c \in ret.cell : c \in get_nearby_cells(WorldOf("A"), CHOOSE m \in A.moves_made : TRUE)

\* C7 (Spec): every add_knowledge call returns: the closure
\* conclude_new_information is invoked at most once more than the number of
\* cells the call adds to safes and mines.
C7_Terminates ==
    ret.op = "add_knowledge" => ret.done /\ ret.passes <= ret.grown + 1

C7_Witness ==
    /\ ret.op = "add_knowledge"
    /\ ret.done
    /\ ret.passes >= 2
    /\ Contradictory(A)

\* C8 (SpecLegit): once moves_made and mines together hold every cell of the
\* board, make_random_move() returns None.
C8_NoMoveLeft ==
    ret.op = "make_random_move"
        /\ BoardCells(height, width) \subseteq A.moves_made \cup A.mines
    => ret.val = {}

\* C9 (SpecLegit): a cell returned by make_random_move() is a cell of the
\* board that is neither in moves_made nor in mines.
C9_RandomMoveOnBoard ==
    ret.op = "make_random_move" =>
        \A c \in ret.val :
            /\ c \in BoardCells(height, width)
            /\ c \notin A.moves_made
            /\ c \notin A.mines

\* C10 (Spec): make_safe_move() returns a cell of safes \ moves_made when
\* there is one and None exactly when there is none, and changes nothing of
\* the agent.
C10_SafeMove ==
    [][ret'.op = "make_safe_move" =>
          /\ ai' = ai
          /\ ret'.val \subseteq A.safes \ A.moves_made
          /\ ret'.val = {} <=> A.safes \ A.moves_made = {}]_vars

C10_Witness ==
    /\ ret.op = "make_safe_move"
    /\ ret.val # {}
    /\ A.moves_made # {}
    /\ A.safes \ A.moves_made # ret.val

\* C11 (SpecOps): mark_if_deterministic, and known_safes and known_mines which
\* call it, on a sentence whose count is 0 puts every cell of the sentence into
\* the known safes, empties cells and returns True; on a sentence whose count
\* equals the number of its cells, more than 0, it puts every cell into the
\* known mines, empties cells, brings count to 0 and returns True; on any other
\* sentence it returns False and leaves cells and count as they were.
C11_TrivialResolution ==
    [][(ret'.who = "S" /\ ret'.op \in {"mark_if_deterministic", "known_safes", "known_mines"})
       => LET s == sents[ret'.idx]
              t == sents'[ret'.idx]
              bool == ret'.op = "mark_if_deterministic"
          IN  IF s.count = 0
              THEN /\ s.cells \subseteq Ssafes'
                   /\ t.cells = {}
                   /\ bool => ret'.val = {TRUE}
              ELSE IF s.count = Cardinality(s.cells)
              THEN /\ s.cells \subseteq Smines'
                   /\ t.cells = {}
                   /\ t.count = 0
                   /\ bool => ret'.val = {TRUE}
              ELSE /\ t.cells = s.cells
                   /\ t.count = s.count
                   /\ bool => ret'.val = {FALSE}]_vars

\* a sentence of two cells or more was resolved as all mines
C11_Witness ==
    /\ ret.op = "mark_if_deterministic"
    /\ ret.val = {TRUE}
    /\ sents[ret.idx].cells = {}
    /\ sents[ret.idx].count = 0
    /\ Cardinality(Smines) >= 2

\* C12 (SpecOps): Sentence.mark_mine(cell) removes the cell from cells and
\* decrements count by exactly 1 when the cell is in cells, leaves cells and
\* count as they were when it is not, and records the cell in the known mines
\* either way; Sentence.mark_safe(cell) removes the cell from cells when it is
\* there, records it in the known safes, and never changes count.
C12_SentenceMarking ==
    [][(ret'.who = "S" /\ ret'.op \in {"mark_mine", "mark_safe"})
       => LET s == sents[ret'.idx]
              t == sents'[ret'.idx]
          IN  \A cell \in ret'.cell :
                 IF ret'.op = "mark_mine"
                 THEN /\ cell \in Smines'
                      /\ cell \in s.cells => t.cells = s.cells \ {cell} /\ t.count = s.count - 1
                      /\ cell \notin s.cells => t.cells = s.cells /\ t.count = s.count
                 ELSE /\ cell \in Ssafes'
                      /\ t.cells = s.cells \ {cell}
                      /\ t.count = s.count]_vars

\* mark_mine took a cell out of a sentence and its count went below the
\* smallest count drawn
C12_Witness ==
    /\ ret.op = "mark_mine"
    /\ ret.who = "S"
    /\ ret.cell \subseteq Smines
    /\ sents[ret.idx].count < -1
    /\ sents[ret.idx].cells # {}

\* C13 (Spec): add_knowledge called with a cell outside the board,
\* [0, height) x [0, width), is rejected before anything runs: the agent's
\* moves_made, safes, mines and knowledge stay as they were.
C13_OutOfBoundsRejected ==
    [][(ret'.op = "add_knowledge" /\ ret'.cell \cap BoardCells(height, width) = {})
       => ai'[ret'.who] = ai[ret'.who]]_vars

\* C14 (SpecClosure): once add_knowledge has returned, after any sequence of
\* true observations, running conclude_new_information again with no new
\* observation leaves safes, mines and the sentences of knowledge, their cells
\* and counts, as they were.
C14_ClosureIdempotent ==
    [][(ret.op = "add_knowledge" /\ ret'.op = "conclude_new_information")
       => ai'["A"] = ai["A"]]_vars

\* C15 (SpecOps): self.reduce_sentence(other) on two distinct sentences, both
\* with cells, returns True when self.cells is a subset of other.cells, leaves
\* other with the cells of old other minus old self and the count of old other
\* minus old self, and leaves self its cells and count; when instead
\* other.cells is a subset of self.cells it is self that is rewritten to the
\* difference, and other is left as it was.
C15_SubsetDirection ==
    [][(ret'.op = "reduce_sentence" /\ ret'.idx[1] # ret'.idx[2]
        /\ sents[ret'.idx[1]].cells # {} /\ sents[ret'.idx[2]].cells # {})
       => LET self == sents[ret'.idx[1]]
              other == sents[ret'.idx[2]]
              selfAfter == sents'[ret'.idx[1]]
              otherAfter == sents'[ret'.idx[2]]
          IN  /\ self.cells \subseteq other.cells
                    => /\ ret'.val = {TRUE}
                       /\ otherAfter.cells = other.cells \ self.cells
                       /\ otherAfter.count = other.count - self.count
                       /\ selfAfter.cells = self.cells
                       /\ selfAfter.count = self.count
              /\ (other.cells \subseteq self.cells /\ ~(self.cells \subseteq other.cells))
                    => /\ ret'.val = {TRUE}
                       /\ selfAfter.cells = self.cells \ other.cells
                       /\ selfAfter.count = self.count - other.count
                       /\ otherAfter.cells = other.cells
                       /\ otherAfter.count = other.count]_vars

\* C16 (SpecOps): when self or other is an empty sentence, cells = {} and
\* count = 0, self.reduce_sentence(other) returns False and changes neither
\* sentence's cells or count, nor the known safes and mines.
C16_EmptyInert ==
    [][(ret'.op = "reduce_sentence"
        /\ (is_empty(sents[ret'.idx[1]]) \/ is_empty(sents[ret'.idx[2]])))
       => /\ ret'.val = {FALSE}
          /\ sents' = sents
          /\ Ssafes' = Ssafes
          /\ Smines' = Smines]_vars

\* C17 (SpecSound): for any two sentences and any mine assignment that
\* satisfies both, after self.reduce_sentence(other), whichever branch ran, the
\* overlap rule included, the assignment still satisfies both sentences, every
\* cell newly recorded as safe is no mine of the assignment and every cell
\* newly recorded as a mine is one.
C17_ReductionSound ==
    [][(/\ ret'.op = "reduce_sentence"
        /\ \A k \in 1 .. Len(sents) : Cardinality(sents[k].cells \cap board) = sents[k].count)
       => /\ \A k \in 1 .. Len(sents) :
                Cardinality(sents'[k].cells \cap board) = sents'[k].count
          /\ (Ssafes' \ Ssafes) \cap board = {}
          /\ (Smines' \ Smines) \subseteq board]_vars

\* the overlap rule ran on two sentences neither of which holds the other, and
\* recorded a cell as safe: the sentences still share a cell afterwards
C17_Witness ==
    /\ ret.op = "reduce_sentence"
    /\ ret.val = {TRUE}
    /\ sents[1].cells \cap sents[2].cells # {}
    /\ Ssafes \ {<<0, 0>>} # {}
    /\ board # {}

\* C18 (Spec): add_knowledge(cell, count) on a cell of the board records the
\* cell in moves_made and in safes, and the sentence it builds, before the
\* closure runs, has cells = N(cell) \ (safes \cup mines) and
\* count = count - |N(cell) \cap mines|, N(cell) being the cells of the board
\* among the 8 adjacent to cell and safes, mines the agent's sets once the cell
\* is marked safe; the sentence is appended to knowledge only if it is not
\* empty by then.
C18_StartsReduced ==
    [][(ret'.op = "add_knowledge" /\ ret'.cell \subseteq BoardCells(height, width))
       => \A cell \in ret'.cell :
             /\ cell \in ai'[ret'.who].moves_made
             /\ cell \in ai'[ret'.who].safes
             /\ \A count \in 0 .. MaxCount :
                   LET w == AI_mark_safe([WorldOf(ret'.who) EXCEPT !.moves_made = @ \cup {cell}],
                                         cell)
                       N == {c \in BoardCells(height, width) :
                                /\ c # cell
                                /\ c[1] - cell[1] \in -1 .. 1
                                /\ c[2] - cell[2] \in -1 .. 1}
                       newKnowledge == NewKnowledge(w, cell, count)
                       resolved == Plain(mark_if_deterministic(newKnowledge).v)
                       knowledge == BuildKnowledge(w, cell, count).knowledge
                   IN  /\ newKnowledge.cells = N \ (w.safes \cup w.mines)
                       /\ newKnowledge.count = count - Cardinality(N \cap w.mines)
                       /\ IF is_empty(resolved)
                          THEN Len(knowledge) = Len(w.knowledge)
                          ELSE /\ Len(knowledge) = Len(w.knowledge) + 1
                               /\ knowledge[Len(knowledge)] = resolved]_vars

\* C19 (SpecLegit): a fresh agent fed only observations true of one board
\* holds, whenever add_knowledge has returned, only sentences with at least
\* one cell and with 0 <= count <= number of cells: every sentence whose cells
\* ran out was removed from knowledge.
C19_WellFormed ==
    ret.op = "add_knowledge"
        => \A i \in 1 .. Len(A.knowledge) :
              /\ A.knowledge[i].cells # {}
              /\ 0 <= A.knowledge[i].count
              /\ A.knowledge[i].count <= Cardinality(A.knowledge[i].cells)

\* sentences were resolved and removed, and others are still held
C19_Witness ==
    /\ ret.op = "add_knowledge"
    /\ Len(A.knowledge) >= 1
    /\ Len(A.knowledge) < Cardinality(A.moves_made)
    /\ A.mines # {}
    /\ ret.passes >= 2

====
